---------------------------- MODULE Spec2Model ----------------------------
(***************************************************************************)
(* Smart Study Planner: the users and tasks tables of tasks.db, the        *)
(* statements smart_study_planner.py runs against them, and the script     *)
(* runs of concurrent browser sessions (one Streamlit script run per user  *)
(* interaction, each statement on its own short-lived connection).         *)
(***************************************************************************)
EXTENDS Integers, Sequences, FiniteSets, TLC

VARIABLES
    users,          \* rows of table users
    tasks,          \* rows of table tasks
    userSeq,        \* AUTOINCREMENT sequence of users (last id handed out)
    taskSeq,        \* AUTOINCREMENT sequence of tasks
    usernameUnique, \* whether users.username carries UNIQUE (db.py schema)
    today,          \* the wall clock's date, as a day ordinal
    session,        \* st.session_state.user of each browser session
    pc,             \* where each session's script run stands
    local,          \* the locals of each session's script run
    result,         \* what the session's last register/login call produced
    openConns,      \* connections of the server process that are open
    registered,     \* history: (email, password) of every stored registration
    lastStmt        \* history: the last direct call on the task store today

vars == <<users, tasks, userSeq, taskSeq, usernameUnique, today, session, pc,
          local, result, openConns, registered, lastStmt>>

(***************************************************************************)
(* Bounds of the model.                                                    *)
(***************************************************************************)
MaxTasks == 2    \* rows ever inserted into tasks by direct calls on the store
MaxAdds == 1     \* rows ever inserted into tasks by the Add Task handler
MaxDay == 1      \* the clock stops at this day ordinal
MaxOpen == 1     \* connections the server process may leave unclosed

Sessions == {"s1", "s2"}
Usernames == {"alice", "bob"}
Emails == {"alice@x.com", "bob@x.com"}
Passwords == {1, 2}
Salts == {1, 2}
Texts == {"Read chapter 1"}
PriorityInputs == {"High"}
Filters == {"All", "Pending", "Completed", "Overdue"}
Days == 0..MaxDay
UserIds == {1, 2}
TaskIds == 1..MaxTasks

None == <<>>
NULL == "NULL"
NoLocal == [kind |-> "none"]
NoStmt == [op |-> "none"]
NoResult == [call |-> "none", email |-> "", ret |-> "none", user |-> None]

(***************************************************************************)
(* Dates.  st.date_input and date.today() give datetime.date values; the   *)
(* sqlite3 module binds a date as its ISO text YYYY-MM-DD, and SQLite      *)
(* compares two TEXT values byte by byte.  Day ordinals 0, 1, 2, ... are   *)
(* 2024-12-31, 2025-01-01, 2025-01-02, ... (a window across a year end).   *)
(***************************************************************************)
Year(n) == IF n = 0 THEN 2024 ELSE 2025
Month(n) == IF n = 0 THEN 12 ELSE 1
DayOfMonth(n) == IF n = 0 THEN 31 ELSE n

Digit(k) == 48 + k
Hyphen == <<45>>
Pad2(k) == <<Digit(k \div 10), Digit(k % 10)>>
Pad4(k) == <<Digit(k \div 1000), Digit((k \div 100) % 10)>> \o Pad2(k % 100)

IsoFormat(n) == Pad4(Year(n)) \o Hyphen \o Pad2(Month(n)) \o Hyphen \o Pad2(DayOfMonth(n))

Min(a, b) == IF a <= b THEN a ELSE b

\* SQLite's BINARY collation on TEXT: memcmp on the common prefix, then length.
TextLess(a, b) ==
    \/ \E i \in 1..Min(Len(a), Len(b)) :
          /\ a[i] < b[i]
          /\ \A j \in 1..(i - 1) : a[j] = b[j]
    \/ /\ Len(a) < Len(b)
       /\ \A j \in 1..Len(a) : a[j] = b[j]

\* due_date < ? in a WHERE clause: NULL on either side is not true.
SqlDateLess(due, bound) == due # NULL /\ TextLess(due, bound)

\* pd.to_datetime(df['due_date'], errors='coerce'): the ordinal of an ISO text.
ToDatetime(text) == CHOOSE n \in 0..(MaxDay + 1) : IsoFormat(n) = text

(***************************************************************************)
(* Password hashing: bcrypt.hashpw(password, salt) keeps the salt in the   *)
(* hash; bcrypt.checkpw hashes the candidate with the stored salt.         *)
(***************************************************************************)
Digest(pw, salt) == (pw * 31 + salt * 17) % 97
Hashpw(pw, salt) == <<salt, Digest(pw, salt)>>

\* Faulty variant: a check that accepts every password.
CheckpwAny(pw, hashed) == hashed = hashed

Checkpw(pw, hashed) == Hashpw(pw, hashed[1]) = hashed

(***************************************************************************)
(* Table users.                                                            *)
(***************************************************************************)
\* Faulty variant: WHERE username=? bound to the email.
UsersByUsername(email) == {u \in users : u.username = email}

\* SELECT * FROM users WHERE email=?
UsersByEmail(email) == {u \in users : u.email = email}

\* The constraints of table users: email UNIQUE always, username UNIQUE when
\* the file was created by db.py's create_tables.
ViolatesUnique(username, email) ==
    \/ \E u \in users : u.email = email
    \/ usernameUnique /\ \E u \in users : u.username = username

UserRow(id, username, email, hashed) ==
    [id |-> id, username |-> username, email |-> email, password |-> hashed]

Identity(u) == <<u.id, u.username, u.email>>

\* login_user: the row with that email, checked against the password.
LoginUser(email, password) ==
    IF \E u \in UsersByEmail(email) : Checkpw(password, u.password)
    THEN Identity(CHOOSE u \in UsersByEmail(email) : Checkpw(password, u.password))
    ELSE None

(***************************************************************************)
(* Table tasks.                                                            *)
(***************************************************************************)
TaskRow(id, user_id, task, due_date, priority, status) ==
    [id |-> id, user_id |-> user_id, task |-> task, due_date |-> due_date,
     priority |-> priority, status |-> status]

\* INSERT INTO tasks (...) VALUES (user_id, task, due_date, priority, 'Pending')
InsertTask(T, id, user_id, task, due, priority) ==
    T \cup {TaskRow(id, user_id, task, IsoFormat(due), priority, "Pending")}

\* Faulty variant: the WHERE clause without status='Pending'.
OverdueWhereAnyStatus(t, user_id, day) ==
    /\ t.user_id = user_id
    /\ SqlDateLess(t.due_date, IsoFormat(day))

\* Faulty variant: due_date <= ? in place of due_date < ?.
OverdueWhereOrEqual(t, user_id, day) ==
    /\ t.user_id = user_id
    /\ t.status = "Pending"
    /\ t.due_date # NULL
    /\ ~TextLess(IsoFormat(day), t.due_date)

\* Faulty variant: due_date > ? in place of due_date < ?.
OverdueWhereLater(t, user_id, day) ==
    /\ t.user_id = user_id
    /\ t.status = "Pending"
    /\ t.due_date # NULL
    /\ TextLess(IsoFormat(day), t.due_date)

\* UPDATE tasks SET status='Overdue'
\*   WHERE user_id=? AND status='Pending' AND due_date < ?
OverdueWhere(t, user_id, day) ==
    /\ t.user_id = user_id
    /\ t.status = "Pending"
    /\ SqlDateLess(t.due_date, IsoFormat(day))

\* Faulty variant: a pass that flips Pending and Overdue of the past-due rows.
UpdateOverdueToggle(T, user_id, day) ==
    {IF t.user_id = user_id /\ t.status # "Completed" /\ SqlDateLess(t.due_date, IsoFormat(day))
     THEN [t EXCEPT !.status = IF @ = "Pending" THEN "Overdue" ELSE "Pending"]
     ELSE t : t \in T}

UpdateOverdue(T, user_id, day) ==
    {IF OverdueWhere(t, user_id, day) THEN [t EXCEPT !.status = "Overdue"] ELSE t : t \in T}

\* Faulty variant: the WHERE clause without user_id=?.
CompleteWhereAnyOwner(t, id, user_id) == t.id = id

\* UPDATE tasks SET status='Completed' WHERE id=? AND user_id=?
CompleteWhere(t, id, user_id) == t.id = id /\ t.user_id = user_id

UpdateCompleted(T, id, user_id) ==
    {IF CompleteWhere(t, id, user_id) THEN [t EXCEPT !.status = "Completed"] ELSE t : t \in T}

\* DELETE FROM tasks WHERE id=? AND user_id=?
DeleteWhere(t, id, user_id) == t.id = id /\ t.user_id = user_id

DeleteTask(T, id, user_id) == {t \in T : ~DeleteWhere(t, id, user_id)}

\* SELECT * FROM tasks WHERE user_id=?
SelectTasks(T, user_id) == {t \in T : t.user_id = user_id}

\* df if status_filter == "All" else df[df['status'] == status_filter]
Filtered(df, f) == IF f = "All" THEN df ELSE {r \in df : r.status = f}

(***************************************************************************)
(* The state tasks.db and the sessions start in.  A fresh file gets the    *)
(* schema of smart_study_planner.py's create_tables.  A file created by    *)
(* db.py's create_tables keeps that schema (CREATE TABLE IF NOT EXISTS):   *)
(* username is UNIQUE there, and rows of its tasks table, which had no     *)
(* due_date and priority columns, get NULL and 'Medium' from the upgrade.  *)
(***************************************************************************)
LegacyUser == UserRow(1, "alice", "alice@x.com", Hashpw(1, 1))
LegacyTask == TaskRow(1, 1, "Read chapter 1", NULL, "Medium", "Pending")

InitDb ==
    \/ /\ usernameUnique = FALSE
       /\ users = {} /\ userSeq = 0 /\ registered = {}
       /\ tasks = {} /\ taskSeq = 0
    \/ /\ usernameUnique = TRUE
       /\ \/ /\ users = {} /\ userSeq = 0 /\ registered = {}
             /\ tasks = {} /\ taskSeq = 0
          \/ /\ users = {LegacyUser} /\ userSeq = 1
             /\ registered = {<<LegacyUser.email, 1>>}
             /\ \/ tasks = {} /\ taskSeq = 0
                \/ tasks = {LegacyTask} /\ taskSeq = 1

InitSessions ==
    /\ today = 0
    /\ session = [s \in Sessions |-> None]
    /\ pc = [s \in Sessions |-> "idle"]
    /\ local = [s \in Sessions |-> NoLocal]
    /\ result = [s \in Sessions |-> NoResult]
    /\ openConns = 0
    /\ lastStmt = NoStmt

Init == InitDb /\ InitSessions

(***************************************************************************)
(* Connections.  get_db_connection opens one and conn.close() closes it.   *)
(* A handler that is left by an exception (sqlite3.IntegrityError, the     *)
(* exception st.rerun() raises) before its conn.close() has not closed     *)
(* its connection: it stays open, unless the interpreter finalises the     *)
(* unreferenced object first.                                              *)
(***************************************************************************)
InUse == Cardinality({s \in Sessions : pc[s] = "reg_insert"})
CanLeak == openConns - InUse < MaxOpen

\* openConns after a step that opened n connections and was left before
\* conn.close(): the handler's connection is finalised, or it stays open.
Abandoned(n) ==
    \/ openConns' = openConns + n - 1
    \/ CanLeak /\ openConns' = openConns + n

Returned(call, email, ret, user) == [call |-> call, email |-> email, ret |-> ret, user |-> user]

\* The clock passes midnight (lastStmt tells the last call of the current day).
Tick ==
    /\ today < MaxDay
    /\ today' = today + 1
    /\ lastStmt' = NoStmt
    /\ UNCHANGED <<users, tasks, userSeq, taskSeq, usernameUnique, session, pc,
                   local, result, openConns, registered>>

(***************************************************************************)
(* Register (unauthenticated session).  register_user runs a SELECT by     *)
(* email and then an INSERT; another session's statements can fall         *)
(* between the two.                                                        *)
(***************************************************************************)
RegisterSelect(s, username, email, password) ==
    /\ session[s] = None
    /\ pc[s] = "idle"
    /\ IF UsersByEmail(email) # {}
       THEN \* conn.close(); return False
            /\ result' = [result EXCEPT ![s] = Returned("register", email, "False", None)]
            /\ UNCHANGED <<pc, local, openConns>>
       ELSE /\ pc' = [pc EXCEPT ![s] = "reg_insert"]
            /\ local' = [local EXCEPT ![s] =
                   [kind |-> "register", username |-> username,
                    email |-> email, password |-> password]]
            /\ openConns' = openConns + 1
            /\ result' = [result EXCEPT ![s] = NoResult]
    /\ UNCHANGED <<users, tasks, userSeq, taskSeq, usernameUnique, today,
                   session, registered, lastStmt>>

RegisterInsert(s) ==
    /\ pc[s] = "reg_insert"
    /\ pc' = [pc EXCEPT ![s] = "idle"]
    /\ local' = [local EXCEPT ![s] = NoLocal]
    /\ IF ViolatesUnique(local[s].username, local[s].email)
       THEN \* sqlite3.IntegrityError leaves register_user: no commit, no close
            /\ Abandoned(0)
            /\ result' = [result EXCEPT ![s] = Returned("register", local[s].email, "IntegrityError", None)]
            /\ UNCHANGED <<users, userSeq, registered>>
       ELSE /\ \E salt \in Salts :
                  users' = users \cup {UserRow(userSeq + 1, local[s].username,
                                       local[s].email, Hashpw(local[s].password, salt))}
            /\ userSeq' = userSeq + 1
            /\ registered' = registered \cup {<<local[s].email, local[s].password>>}
            /\ openConns' = openConns - 1
            /\ result' = [result EXCEPT ![s] = Returned("register", local[s].email, "True", None)]
    /\ UNCHANGED <<tasks, taskSeq, usernameUnique, today, session, lastStmt>>

(***************************************************************************)
(* Login (unauthenticated session): login_user, then the form handler,     *)
(* which keeps the identity in st.session_state.user on a match.           *)
(***************************************************************************)
Login(s, email, password) ==
    /\ session[s] = None
    /\ pc[s] = "idle"
    /\ LET user == LoginUser(email, password) IN
         /\ result' = [result EXCEPT ![s] =
                Returned("login", email, IF user = None THEN "None" ELSE "user", user)]
         /\ session' = [session EXCEPT ![s] = user]
    /\ UNCHANGED <<users, tasks, userSeq, taskSeq, usernameUnique, today, pc,
                   local, openConns, registered, lastStmt>>

(***************************************************************************)
(* The main app block (authenticated session).  Every script run starts    *)
(* with update_overdue_tasks; then either the Add Task button's handler    *)
(* runs and ends the run with st.rerun(), or the task list is fetched and  *)
(* display_tasks draws it, running the handler of a pressed button.  A     *)
(* run's locals keep, as history, the day its update_overdue_tasks read    *)
(* (recDay) and the last task id handed out by then (recSeq).              *)
(***************************************************************************)
UserId(s) == session[s][1]

\* The rows of the DataFrame a run fetched, while display_tasks draws them.
Df(s) == IF pc[s] = "list" THEN local[s].df ELSE {}

Reconcile(s) ==
    /\ session[s] # None
    /\ pc[s] = "idle"
    /\ tasks' = UpdateOverdue(tasks, UserId(s), today)
    /\ pc' = [pc EXCEPT ![s] = "main"]
    /\ local' = [local EXCEPT ![s] =
           [kind |-> "main", recDay |-> today, recSeq |-> taskSeq]]
    /\ UNCHANGED <<users, userSeq, taskSeq, usernameUnique, today, session,
                   result, openConns, registered, lastStmt>>

AddTask(s, task, due, priority) ==
    /\ pc[s] = "main"
    /\ taskSeq < MaxAdds
    /\ tasks' = InsertTask(tasks, taskSeq + 1, UserId(s), task, due, priority)
    /\ taskSeq' = taskSeq + 1
    /\ pc' = [pc EXCEPT ![s] = "idle"]
    /\ local' = [local EXCEPT ![s] = NoLocal]
    /\ UNCHANGED <<users, userSeq, usernameUnique, today, session, result,
                   openConns, registered, lastStmt>>

Fetch(s) ==
    /\ pc[s] = "main"
    /\ LET df == SelectTasks(tasks, UserId(s)) IN
         IF df = {}
         THEN \* st.info("No tasks yet!")
              /\ pc' = [pc EXCEPT ![s] = "idle"]
              /\ local' = [local EXCEPT ![s] = NoLocal]
         ELSE /\ pc' = [pc EXCEPT ![s] = "list"]
              /\ local' = [local EXCEPT ![s] =
                     [kind |-> "list", recDay |-> local[s].recDay,
                      recSeq |-> local[s].recSeq, df |-> df]]
    /\ UNCHANGED <<users, tasks, userSeq, taskSeq, usernameUnique, today,
                   session, result, openConns, registered, lastStmt>>

\* display_tasks, the Complete button of row r pressed: st.rerun() ends the
\* run before conn.close().
Complete(s, r) ==
    /\ pc[s] = "list"
    /\ \E f \in Filters : r \in Filtered(Df(s), f)
    /\ r.status # "Completed"
    /\ tasks' = UpdateCompleted(tasks, r.id, UserId(s))
    /\ Abandoned(1)
    /\ pc' = [pc EXCEPT ![s] = "idle"]
    /\ local' = [local EXCEPT ![s] = NoLocal]
    /\ UNCHANGED <<users, userSeq, taskSeq, usernameUnique, today, session,
                   result, registered, lastStmt>>

\* display_tasks, the Delete button of row r pressed.
Delete(s, r) ==
    /\ pc[s] = "list"
    /\ \E f \in Filters : r \in Filtered(Df(s), f)
    /\ tasks' = DeleteTask(tasks, r.id, UserId(s))
    /\ Abandoned(1)
    /\ pc' = [pc EXCEPT ![s] = "idle"]
    /\ local' = [local EXCEPT ![s] = NoLocal]
    /\ UNCHANGED <<users, userSeq, taskSeq, usernameUnique, today, session,
                   result, registered, lastStmt>>

\* display_tasks, no button pressed: the loop ends and conn.close() runs.
Render(s) ==
    /\ pc[s] = "list"
    /\ pc' = [pc EXCEPT ![s] = "idle"]
    /\ local' = [local EXCEPT ![s] = NoLocal]
    /\ UNCHANGED <<users, tasks, userSeq, taskSeq, usernameUnique, today,
                   session, result, openConns, registered, lastStmt>>

NextCred ==
    \/ \E s \in Sessions, username \in Usernames, email \in Emails, password \in Passwords :
          RegisterSelect(s, username, email, password)
    \/ \E s \in Sessions : RegisterInsert(s)
    \/ \E s \in Sessions, email \in Emails, password \in Passwords :
          Login(s, email, password)

NextPlanner ==
    \/ Tick
    \/ \E s \in Sessions, email \in Emails, password \in Passwords :
          Login(s, email, password)
    \/ \E s \in Sessions : Reconcile(s)
    \/ \E s \in Sessions, task \in Texts, due \in Days, priority \in PriorityInputs :
          AddTask(s, task, due, priority)
    \/ \E s \in Sessions : Fetch(s)
    \/ \E s \in Sessions : \E r \in Df(s) : Complete(s, r)
    \/ \E s \in Sessions : \E r \in Df(s) : Delete(s, r)
    \/ \E s \in Sessions : Render(s)

(***************************************************************************)
(* Direct calls on the task store and the reconciler, with any user id     *)
(* and any task id: the statements of the handlers above, run on their     *)
(* own.                                                                    *)
(***************************************************************************)
StoreInsert(user_id, task, due, priority) ==
    /\ taskSeq < MaxTasks
    /\ tasks' = InsertTask(tasks, taskSeq + 1, user_id, task, due, priority)
    /\ taskSeq' = taskSeq + 1
    /\ lastStmt' = [op |-> "insert", user_id |-> user_id, id |-> taskSeq + 1]
    /\ UNCHANGED <<users, userSeq, usernameUnique, today, session, pc, local,
                   result, openConns, registered>>

StoreComplete(user_id, id) ==
    /\ tasks' = UpdateCompleted(tasks, id, user_id)
    /\ lastStmt' = [op |-> "complete", user_id |-> user_id, id |-> id]
    /\ UNCHANGED <<users, userSeq, taskSeq, usernameUnique, today, session, pc,
                   local, result, openConns, registered>>

StoreDelete(user_id, id) ==
    /\ tasks' = DeleteTask(tasks, id, user_id)
    /\ lastStmt' = [op |-> "delete", user_id |-> user_id, id |-> id]
    /\ UNCHANGED <<users, userSeq, taskSeq, usernameUnique, today, session, pc,
                   local, result, openConns, registered>>

StoreReconcile(user_id) ==
    /\ tasks' = UpdateOverdue(tasks, user_id, today)
    /\ lastStmt' = [op |-> "reconcile", user_id |-> user_id, id |-> 0]
    /\ UNCHANGED <<users, userSeq, taskSeq, usernameUnique, today, session, pc,
                   local, result, openConns, registered>>

NextStore ==
    \/ Tick
    \/ \E user_id \in UserIds, task \in Texts, due \in Days, priority \in PriorityInputs :
          StoreInsert(user_id, task, due, priority)
    \/ \E user_id \in UserIds, id \in TaskIds : StoreComplete(user_id, id)
    \/ \E user_id \in UserIds, id \in TaskIds : StoreDelete(user_id, id)
    \/ \E user_id \in UserIds : StoreReconcile(user_id)

(***************************************************************************)
(* Specifications.  Spec is the application: sessions that register, log   *)
(* in and work on their tasks.  Its parts are checked on their own:        *)
(* SpecCred, the sessions registering and logging in; SpecPlanner, the     *)
(* main app block, for two new sessions on a file in which alice and bob   *)
(* have registered; SpecStore, direct calls on the task store.             *)
(***************************************************************************)
Alice == UserRow(1, "alice", "alice@x.com", Hashpw(1, 1))
Bob == UserRow(2, "bob", "bob@x.com", Hashpw(2, 2))

InitPlanner ==
    /\ usernameUnique = FALSE
    /\ users = {Alice, Bob} /\ userSeq = 2
    /\ registered = {<<Alice.email, 1>>, <<Bob.email, 2>>}
    /\ tasks = {} /\ taskSeq = 0
    /\ InitSessions

InitStore ==
    /\ usernameUnique = TRUE
    /\ users = {LegacyUser} /\ userSeq = 1
    /\ registered = {<<LegacyUser.email, 1>>}
    /\ \/ tasks = {} /\ taskSeq = 0
       \/ tasks = {LegacyTask} /\ taskSeq = 1
    /\ InitSessions

Next == NextCred \/ NextPlanner

Spec == Init /\ [][Next]_vars
SpecCred == Init /\ [][NextCred]_vars
SpecPlanner == InitPlanner /\ [][NextPlanner]_vars
SpecStore == InitStore /\ [][NextStore]_vars

(***************************************************************************)
(* Properties of the task store and the reconciler (SpecStore).            *)
(***************************************************************************)
PastDue(t, day) == t.due_date # NULL /\ ToDatetime(t.due_date) < day

\* C1: a row of table tasks is changed or removed only by a call that carries
\* its owner's user id; a complete, delete or reconcile call carrying another
\* user's id leaves the row as it is.
C1_OwnershipIsolation ==
    [][\A t \in tasks :
          t \notin tasks' => (lastStmt'.op # "none" /\ lastStmt'.user_id = t.user_id)]_vars

\* A complete call with another user's id has just run on a Pending task,
\* which is still Pending.
C1_Witness ==
    /\ lastStmt.op = "complete"
    /\ \E t \in tasks :
          t.id = lastStmt.id /\ t.user_id # lastStmt.user_id /\ t.status = "Pending"

\* C5: a reconciliation pass for user u on day today sets to Overdue exactly
\* the rows owned by u that are Pending and whose due date is a day before
\* today; every other row (no due date, due today or later, Completed or
\* Overdue already, another user's) is unchanged.
C5_ReconcileExact ==
    [][\A u \in UserIds :
          StoreReconcile(u) =>
             tasks' = {IF t.user_id = u /\ t.status = "Pending" /\ PastDue(t, today)
                       THEN [t EXCEPT !.status = "Overdue"]
                       ELSE t : t \in tasks}]_vars

\* A pass has just run for a user: a past-due task of that user is Overdue,
\* and a past-due Pending task of another user is still Pending.
C5_Witness ==
    /\ lastStmt.op = "reconcile"
    /\ \E t \in tasks :
          t.user_id = lastStmt.user_id /\ t.status = "Overdue" /\ PastDue(t, today)
    /\ \E t \in tasks :
          t.user_id # lastStmt.user_id /\ t.status = "Pending" /\ PastDue(t, today)

\* C6: a Completed row stays as it is through every call (reconcile on any
\* day, complete, insert) until a delete call carrying its owner's id and its
\* task id removes it.
C6_CompletedAbsorbing ==
    [][\A t \in tasks :
          t.status = "Completed" =>
             \/ t \in tasks'
             \/ /\ lastStmt'.op = "delete"
                /\ lastStmt'.user_id = t.user_id
                /\ lastStmt'.id = t.id
                /\ \A x \in tasks' : x.id # t.id]_vars

\* A pass has just run for the owner of a Completed task whose due date is
\* past, and the task is still Completed.
C6_Witness ==
    /\ lastStmt.op = "reconcile"
    /\ \E t \in tasks :
          t.user_id = lastStmt.user_id /\ t.status = "Completed" /\ PastDue(t, today)

\* C7: a reconciliation pass that follows a pass for the same user on the
\* same day changes nothing.
C7_ReconcileIdempotent ==
    [][\A u \in UserIds :
          (lastStmt.op = "reconcile" /\ lastStmt.user_id = u /\ StoreReconcile(u))
             => tasks' = tasks]_vars

\* A pass that marked a task Overdue has just run, while the same user has
\* another task that it left alone.
C7_Witness ==
    /\ lastStmt.op = "reconcile"
    /\ \E t, x \in tasks :
          /\ t.user_id = lastStmt.user_id /\ t.status = "Overdue"
          /\ x.user_id = lastStmt.user_id /\ x.status = "Pending"

(***************************************************************************)
(* Properties of the credential store (SpecCred).                            *)
(***************************************************************************)
RowsWithEmail(U, email) == {u \in U : u.email = email}

\* C2: no two rows of table users share an email, and no two share a
\* username.
C2_UniqueEmailAndUsername ==
    \A u, v \in users : (u.email = v.email \/ u.username = v.username) => u = v

\* C3: a register call made when a row with its email exists returns False
\* and leaves table users as it is; a register call whose INSERT meets no
\* constraint returns True and adds the one row with its email; no email
\* ever has two rows.
C3_RegisterTwice ==
    [][/\ \A s \in Sessions, username \in Usernames, email \in Emails, password \in Passwords :
             (RegisterSelect(s, username, email, password) /\ RowsWithEmail(users, email) # {})
                => /\ result'[s].call = "register" /\ result'[s].ret = "False"
                   /\ users' = users /\ userSeq' = userSeq
       /\ \A s \in Sessions :
             (/\ RegisterInsert(s)
              /\ RowsWithEmail(users, local[s].email) = {}
              /\ ~(usernameUnique /\ \E u \in users : u.username = local[s].username))
                => /\ result'[s].call = "register" /\ result'[s].ret = "True"
                   /\ Cardinality(users') = Cardinality(users) + 1
                   /\ users \subseteq users'
                   /\ Cardinality(RowsWithEmail(users', local[s].email)) = 1
       /\ \A email \in Emails : Cardinality(RowsWithEmail(users', email)) <= 1]_vars

\* One session's register call for an email returned True, another session's
\* later call for the same email returned False, and the email has one row.
C3_Witness ==
    \E s1, s2 \in Sessions :
       /\ result[s1].call = "register" /\ result[s1].ret = "True"
       /\ result[s2].call = "register" /\ result[s2].ret = "False"
       /\ result[s1].email = result[s2].email
       /\ Cardinality(RowsWithEmail(users, result[s1].email)) = 1

\* C4: login returns the identity of the row with the email exactly when the
\* password is the one that email was registered with, and the no-match
\* value otherwise; it writes nothing, and the session holds an identity
\* afterwards only on a match.
C4_Login ==
    [][\A s \in Sessions, email \in Emails, password \in Passwords :
          Login(s, email, password) =>
             /\ users' = users /\ tasks' = tasks
             /\ userSeq' = userSeq /\ taskSeq' = taskSeq
             /\ IF <<email, password>> \in registered
                THEN /\ \E u \in users :
                           /\ u.email = email
                           /\ result'[s].user = <<u.id, u.username, u.email>>
                     /\ result'[s].ret = "user"
                     /\ session'[s] = result'[s].user
                ELSE /\ result'[s].ret = "None"
                     /\ result'[s].user = None
                     /\ session'[s] = None]_vars

\* One session is logged in after a login that matched; another session's
\* login with the same email and no match left it unauthenticated.
C4_Witness ==
    \E s1, s2 \in Sessions :
       /\ result[s1].call = "login" /\ result[s1].ret = "user" /\ session[s1] # None
       /\ result[s2].call = "login" /\ result[s2].ret = "None" /\ session[s2] = None
       /\ result[s1].email = result[s2].email

\* C8: a register call for an email that a row holds, also one that lost a
\* race between its SELECT and its INSERT, ends by returning True or False.
C8_RaceLoserReturnsFalse ==
    \A s \in Sessions :
       (result[s].call = "register" /\ RowsWithEmail(users, result[s].email) # {})
          => result[s].ret \in {"True", "False"}

(***************************************************************************)
(* Properties of the main app block (SpecPlanner).                         *)
(***************************************************************************)
\* C9 as claimed: no task list on display holds a Pending task whose due
\* date is before the current date.
C9_NeverPendingPastDue ==
    \A s \in Sessions : \A r \in Df(s) : ~(r.status = "Pending" /\ PastDue(r, today))

\* C9: the task list on display was fetched after the run's reconciliation,
\* and a Pending task in it whose due date is before the day that
\* reconciliation read was inserted after that reconciliation ran.
C9_PendingPastDueIsNewer ==
    \A s \in Sessions :
       pc[s] = "list" =>
          /\ local[s].recDay <= today
          /\ \A r \in Df(s) :
                (r.status = "Pending" /\ PastDue(r, local[s].recDay)) => r.id > local[s].recSeq

\* A task added with a past due date is on display as Overdue.
C9_Witness ==
    \E s \in Sessions : \E r \in Df(s) :
       /\ r.status = "Overdue"
       /\ r.user_id = UserId(s)
       /\ PastDue(r, local[s].recDay)

\* C10: when no handler is running, the server process holds no open
\* connection.
C10_NoConnectionLeftOpen ==
    (\A s \in Sessions : pc[s] = "idle") => openConns = 0

=============================================================================
